---- MODULE Spec2Model ----
(***************************************************************************)
(* A model of microTOML (src/microtoml.py): the line parser                *)
(* TOML._parse_toml, the value coercion TOML._parse_value and the two      *)
(* accessors TOML.__call__ and TOML.__getattr__.                           *)
(*                                                                         *)
(* Text is modelled as sequences of one-character strings.  Python dicts   *)
(* and lists are objects with identity: `dicts` and `lists` are heaps      *)
(* indexed by object id, so that aliasing (the section cursor, a list      *)
(* handed out by an accessor) is visible.                                  *)
(***************************************************************************)
EXTENDS Integers, Sequences, FiniteSets, TLC

VARIABLES pc, dicts, lists, current_section, nlines, raw_line, key,
          value_str, value, data, held, ret, opened, root, text, first

\* pc               "parsing" inside TOML._parse_toml, "done" once __init__
\*                  has bound self._data (line 23)
\* dicts            the dict objects by id; dicts[root] is `result` (line 66)
\* lists            the list objects by id (`arr`, line 85)
\* current_section  the id of the dict `current_section` refers to
\* nlines           the number of lines the loop of line 69 has taken
\* raw_line         the line taken last
\* key, value_str, value   the locals of lines 114, 115 and 120
\* data             self._data
\* held             what the caller holds from its last section access
\* ret              the last accessor operation and its outcome
\* opened           history: for each name, the tables its `[[name]]`
\*                  headers created (`new_table`, line 88), in order
\* root             the id of the dict `result` of the parse at hand
\* text             the lines of toml_str, kept when the same text is parsed
\*                  a second time
\* first            self._data of the first TOML object, once a second one
\*                  is being constructed from the same text
vars == <<pc, dicts, lists, current_section, nlines, raw_line, key,
          value_str, value, data, held, ret, opened, root, text, first>>

-----------------------------------------------------------------------------
(* Bounds of the model.                                                    *)

\* longest document, in lines
MaxLines == 4
\* longest enumerated right-hand side of SpecValue, in characters
MaxValLen == 3

-----------------------------------------------------------------------------
(* Python values.  One record shape for every value keeps them comparable: *)
(*   t = "None" | "str" | "bool" | "int" | "float" | "dict" | "list"       *)
(*   s : the characters of a str (the word inf/nan of a special float)     *)
(*   n : the int, the bool as 0/1, the float's decimal mantissa, or the    *)
(*       object id of a dict or list                                       *)
(*   e : the float's decimal exponent                                      *)

None == [t |-> "None", s |-> <<>>, n |-> 0, e |-> 0]
Str(s) == [t |-> "str", s |-> s, n |-> 0, e |-> 0]
Bool(b) == [t |-> "bool", s |-> <<>>, n |-> IF b THEN 1 ELSE 0, e |-> 0]
IntV(n) == [t |-> "int", s |-> <<>>, n |-> n, e |-> 0]
FloatV(m, e) == [t |-> "float", s |-> <<>>, n |-> m, e |-> e]
FloatSpecial(w, sign) == [t |-> "float", s |-> w, n |-> sign, e |-> 0]
DictRef(id) == [t |-> "dict", s |-> <<>>, n |-> id, e |-> 0]
ListRef(id) == [t |-> "list", s |-> <<>>, n |-> id, e |-> 0]

ScalarTypes == {"str", "bool", "int", "float"}
IsScalar(v) == v.t \in ScalarTypes

-----------------------------------------------------------------------------
(* str methods used by the parser.                                         *)

Whitespace == {" ", "\t"}
Digits == {"0", "1", "2", "3", "4", "5", "6", "7", "8", "9"}

RECURSIVE LStrip(_)
LStrip(s) == IF s # <<>> /\ Head(s) \in Whitespace THEN LStrip(Tail(s)) ELSE s

RECURSIVE RStrip(_)
RStrip(s) ==
  IF s # <<>> /\ s[Len(s)] \in Whitespace
  THEN RStrip(SubSeq(s, 1, Len(s) - 1))
  ELSE s

\* str.strip()
Strip(s) == RStrip(LStrip(s))

\* str.startswith(p), str.endswith(p)
StartsWith(s, p) == Len(s) >= Len(p) /\ SubSeq(s, 1, Len(p)) = p
EndsWith(s, p) == Len(s) >= Len(p) /\ SubSeq(s, Len(s) - Len(p) + 1, Len(s)) = p

\* s[i:j] with Python's 0-based, end-exclusive, clamped indices (j < 0 counts
\* from the end)
Slice(s, i, j) ==
  LET hi == IF j < 0 THEN Len(s) + j ELSE IF j > Len(s) THEN Len(s) ELSE j
      lo == IF i > Len(s) THEN Len(s) ELSE i
  IN  IF hi <= lo THEN <<>> ELSE SubSeq(s, lo + 1, hi)

\* str.find(c): the 0-based index of the first c, -1 when there is none
Find(s, c) ==
  IF \E i \in 1..Len(s) : s[i] = c
  THEN (CHOOSE i \in 1..Len(s) : s[i] = c /\ \A j \in 1..(i - 1) : s[j] # c) - 1
  ELSE -1

LowerChar(c) ==
  CASE c = "T" -> "t" [] c = "R" -> "r" [] c = "U" -> "u" [] c = "E" -> "e"
    [] c = "F" -> "f" [] c = "A" -> "a" [] c = "L" -> "l" [] c = "S" -> "s"
    [] c = "I" -> "i" [] c = "N" -> "n" [] c = "Y" -> "y"
    [] OTHER -> c

\* str.lower()
Lower(s) == [i \in 1..Len(s) |-> LowerChar(s[i])]

\* str.replace("_", "")
RECURSIVE RemoveUnderscores(_)
RemoveUnderscores(s) ==
  IF s = <<>> THEN <<>>
  ELSE IF Head(s) = "_" THEN RemoveUnderscores(Tail(s))
  ELSE <<Head(s)>> \o RemoveUnderscores(Tail(s))

-----------------------------------------------------------------------------
(* int(str) and float(str) of the Python runtime, as _parse_value uses     *)
(* them: the outcome is either a value or a raised ValueError.             *)

DigitVal(c) ==
  CASE c = "0" -> 0 [] c = "1" -> 1 [] c = "2" -> 2 [] c = "3" -> 3
    [] c = "4" -> 4 [] c = "5" -> 5 [] c = "6" -> 6 [] c = "7" -> 7
    [] c = "8" -> 8 [] c = "9" -> 9

\* the number a sequence of digits denotes, base 10
RECURSIVE NumVal(_)
NumVal(ds) ==
  IF ds = <<>> THEN 0
  ELSE 10 * NumVal(SubSeq(ds, 1, Len(ds) - 1)) + DigitVal(ds[Len(ds)])

\* a digit part of a numeric literal: digits, single underscores between them
DigitRun(b) ==
  /\ b # <<>>
  /\ \A i \in 1..Len(b) : b[i] \in Digits \cup {"_"}
  /\ b[1] # "_" /\ b[Len(b)] # "_"
  /\ \A i \in 1..(Len(b) - 1) : ~(b[i] = "_" /\ b[i + 1] = "_")

IsSigned(t) == t # <<>> /\ t[1] \in {"+", "-"}
SignOf(t) == IF t # <<>> /\ t[1] = "-" THEN -1 ELSE 1
Unsigned(t) == IF IsSigned(t) THEN Tail(t) ELSE t

\* int(s): surrounding whitespace, an optional sign, a digit part
PyInt(s) ==
  LET t == Strip(s)
      b == Unsigned(t)
  IN  IF DigitRun(b)
      THEN [raised |-> FALSE, val |-> IntV(SignOf(t) * NumVal(RemoveUnderscores(b)))]
      ELSE [raised |-> TRUE, val |-> None]

\* a decimal mantissa/exponent pair without trailing zeros in the mantissa
RECURSIVE Normalize(_, _)
Normalize(m, e) ==
  IF m = 0 THEN <<0, 0>>
  ELSE IF m % 10 = 0 THEN Normalize(m \div 10, e + 1)
  ELSE <<m, e>>

FloatWords == { <<"i", "n", "f">>, <<"i", "n", "f", "i", "n", "i", "t", "y">>,
                <<"n", "a", "n">> }

\* float(s): surrounding whitespace, an optional sign, then inf / infinity /
\* nan in any case, or digits [. digits] [e [sign] digits] with a digit on at
\* least one side of the point.  The value is kept as a decimal
\* mantissa * 10^exponent.
PyFloat(s) ==
  LET t == Strip(s)
      b == Unsigned(t)
      epos == IF Find(b, "e") # -1 THEN Find(b, "e") ELSE Find(b, "E")
      mant == IF epos = -1 THEN b ELSE Slice(b, 0, epos)
      expo == IF epos = -1 THEN <<"0">> ELSE Slice(b, epos + 1, Len(b))
      dot == Find(mant, ".")
      ip == IF dot = -1 THEN mant ELSE Slice(mant, 0, dot)
      fp == IF dot = -1 THEN <<>> ELSE Slice(mant, dot + 1, Len(mant))
      ok == /\ ip = <<>> \/ DigitRun(ip)
            /\ fp = <<>> \/ DigitRun(fp)
            /\ ip # <<>> \/ fp # <<>>
            /\ DigitRun(Unsigned(expo))
      fd == RemoveUnderscores(fp)
      m == NumVal(RemoveUnderscores(ip) \o fd)
      x == SignOf(expo) * NumVal(RemoveUnderscores(Unsigned(expo))) - Len(fd)
      nm == Normalize(m, x)
  IN  IF Lower(b) \in FloatWords
      THEN [raised |-> FALSE, val |-> FloatSpecial(Lower(b), SignOf(t))]
      ELSE IF ok
      THEN [raised |-> FALSE, val |-> FloatV(SignOf(t) * nm[1], nm[2])]
      ELSE [raised |-> TRUE, val |-> None]

-----------------------------------------------------------------------------
(* TOML._parse_value                                                       *)

\* CoerceUnquoted as it would be with the boolean words compared without
\* lower(): only the all-lower-case spellings are booleans
CoerceUnquotedCaseSensitive(vs) ==
  LET num_candidate == RemoveUnderscores(vs)
  IN  IF vs = <<"t", "r", "u", "e">> THEN Bool(TRUE)
      ELSE IF vs = <<"f", "a", "l", "s", "e">> THEN Bool(FALSE)
      ELSE IF ~PyInt(num_candidate).raised THEN PyInt(num_candidate).val
      ELSE IF ~PyFloat(num_candidate).raised THEN PyFloat(num_candidate).val
      ELSE Str(vs)

\* CoerceUnquoted as it would be without replace("_", ""): int() and float()
\* see the underscores
CoerceUnquotedKeepUnderscores(vs) ==
  LET lower == Lower(vs)
  IN  IF lower = <<"t", "r", "u", "e">> THEN Bool(TRUE)
      ELSE IF lower = <<"f", "a", "l", "s", "e">> THEN Bool(FALSE)
      ELSE IF ~PyInt(vs).raised THEN PyInt(vs).val
      ELSE IF ~PyFloat(vs).raised THEN PyFloat(vs).val
      ELSE Str(vs)

\* lines 138-157: booleans, then int, then float, then the string itself
CoerceUnquoted(vs) ==
  LET lower == Lower(vs)
      num_candidate == RemoveUnderscores(vs)
  IN  IF lower = <<"t", "r", "u", "e">> THEN Bool(TRUE)
      ELSE IF lower = <<"f", "a", "l", "s", "e">> THEN Bool(FALSE)
      ELSE IF ~PyInt(num_candidate).raised THEN PyInt(num_candidate).val
      ELSE IF ~PyFloat(num_candidate).raised THEN PyFloat(num_candidate).val
      ELSE Str(vs)

\* lines 134-135: the test that sends a value down the quoted-string branch
QuoteTest(vs) ==
  \/ vs[1] = "\"" /\ vs[Len(vs)] = "\""
  \/ vs[1] = "'" /\ vs[Len(vs)] = "'"

ParseValue(vs) ==
  IF vs = <<>> THEN Str(<<>>)
  ELSE IF QuoteTest(vs) THEN Str(Slice(vs, 1, -1))
  ELSE CoerceUnquoted(vs)

-----------------------------------------------------------------------------
(* dict operations.  A dict is a function from its keys to values.         *)

EmptyDict == <<>>

\* d.get(k) and d.get(k, default)
DictGet(d, k) == IF k \in DOMAIN d THEN d[k] ELSE None
DictGetDefault(d, k, default) == IF k \in DOMAIN d THEN d[k] ELSE default

\* d[k] = v
DictSet(d, k, v) == [x \in (DOMAIN d) \cup {k} |-> IF x = k THEN v ELSE d[x]]

-----------------------------------------------------------------------------
(* TOML._parse_toml                                                        *)

\* the object id of the dict created at line 66; `result` never rebinds
\* during a parse
result == root

\* isinstance(v, list), isinstance(v, dict)
IsList(v) == v.t = "list"
IsDict(v) == v.t = "dict"

\* the header tests of lines 77 and 94
IsArrayHeader(line) ==
  StartsWith(line, <<"[", "[">>) /\ EndsWith(line, <<"]", "]">>)
IsTableHeader(line) ==
  ~IsArrayHeader(line) /\ StartsWith(line, <<"[">>) /\ EndsWith(line, <<"]">>)

\* ArrayHeaderName as it would be without strip() at line 78
ArrayHeaderNameUntrimmed(line) == Slice(line, 2, -2)

\* lines 78 and 95
ArrayHeaderName(line) == Strip(Slice(line, 2, -2))
TableHeaderName(line) == Strip(Slice(line, 1, -1))

\* lines 71-74: a blank line or a whole-line comment
IsBlankOrComment(line) == line = <<>> \/ StartsWith(line, <<"#">>)

Locals == <<key, value_str, value>>

\* ResetCursor as it would be if a header without a name were just skipped
ResetCursorSkipped ==
  UNCHANGED <<current_section, dicts, lists, opened, Locals>>

\* lines 80-81 and 97-98: a header without a name
ResetCursor ==
  /\ current_section' = result
  /\ UNCHANGED <<dicts, lists, opened, Locals>>

\* ArrayHeader as it would be with current_section = arr[0] at line 90: the
\* cursor goes back to the first element of the array
ArrayHeaderCursorFirst(section_name) ==
  LET arr == DictGet(dicts[result], section_name)
      new_table == Len(dicts) + 1
      new_list == Len(lists) + 1
  IN  /\ IF ~IsList(arr)
         THEN /\ lists' = Append(lists, <<new_table>>)
              /\ dicts' = Append([dicts EXCEPT ![result] =
                                    DictSet(@, section_name, ListRef(new_list))],
                                 EmptyDict)
              /\ current_section' = new_table
         ELSE /\ lists' = [lists EXCEPT ![arr.n] = Append(@, new_table)]
              /\ dicts' = Append(dicts, EmptyDict)
              /\ current_section' = lists[arr.n][1]
      /\ opened' = DictSet(opened, section_name,
                           Append(DictGetDefault(opened, section_name, <<>>),
                                  new_table))
      /\ UNCHANGED Locals

\* ArrayHeader as it would be without line 90: the cursor stays where it was
ArrayHeaderKeepsCursor(section_name) ==
  LET arr == DictGet(dicts[result], section_name)
      new_table == Len(dicts) + 1
      new_list == Len(lists) + 1
  IN  /\ IF ~IsList(arr)
         THEN /\ lists' = Append(lists, <<new_table>>)
              /\ dicts' = Append([dicts EXCEPT ![result] =
                                    DictSet(@, section_name, ListRef(new_list))],
                                 EmptyDict)
         ELSE /\ lists' = [lists EXCEPT ![arr.n] = Append(@, new_table)]
              /\ dicts' = Append(dicts, EmptyDict)
      /\ opened' = DictSet(opened, section_name,
                           Append(DictGetDefault(opened, section_name, <<>>),
                                  new_table))
      /\ UNCHANGED <<current_section, Locals>>

\* lines 83-91
ArrayHeader(section_name) ==
  LET arr == DictGet(dicts[result], section_name)
      new_table == Len(dicts) + 1
      new_list == Len(lists) + 1
  IN  /\ IF ~IsList(arr)
         THEN /\ lists' = Append(lists, <<new_table>>)
              /\ dicts' = Append([dicts EXCEPT ![result] =
                                    DictSet(@, section_name, ListRef(new_list))],
                                 EmptyDict)
         ELSE /\ lists' = [lists EXCEPT ![arr.n] = Append(@, new_table)]
              /\ dicts' = Append(dicts, EmptyDict)
      /\ current_section' = new_table
      /\ opened' = DictSet(opened, section_name,
                           Append(DictGetDefault(opened, section_name, <<>>),
                                  new_table))
      /\ UNCHANGED Locals

\* TableHeader as it would be if it looked the name up, and bound the table,
\* in the current section instead of in `result`
TableHeaderNested(section_name) ==
  LET table == DictGet(dicts[current_section], section_name)
      new_table == Len(dicts) + 1
  IN  /\ IF ~IsDict(table)
         THEN /\ dicts' = Append([dicts EXCEPT ![current_section] =
                                    DictSet(@, section_name, DictRef(new_table))],
                                 EmptyDict)
              /\ current_section' = new_table
         ELSE /\ dicts' = dicts
              /\ current_section' = table.n
      /\ UNCHANGED <<lists, opened, Locals>>

\* TableHeader as it would be if every [name] bound a fresh table
TableHeaderFresh(section_name) ==
  LET new_table == Len(dicts) + 1
  IN  /\ dicts' = Append([dicts EXCEPT ![result] =
                            DictSet(@, section_name, DictRef(new_table))],
                         EmptyDict)
      /\ current_section' = new_table
      /\ UNCHANGED <<lists, opened, Locals>>

\* lines 100-106
TableHeader(section_name) ==
  LET table == DictGet(dicts[result], section_name)
      new_table == Len(dicts) + 1
  IN  /\ IF ~IsDict(table)
         THEN /\ dicts' = Append([dicts EXCEPT ![result] =
                                    DictSet(@, section_name, DictRef(new_table))],
                                 EmptyDict)
              /\ current_section' = new_table
         ELSE /\ dicts' = dicts
              /\ current_section' = table.n
      /\ UNCHANGED <<lists, opened, Locals>>

\* str.rfind(c): the 0-based index of the last c, -1 when there is none
RFind(s, c) ==
  IF \E i \in 1..Len(s) : s[i] = c
  THEN (CHOOSE i \in 1..Len(s) : s[i] = c /\ \A j \in (i + 1)..Len(s) : s[j] # c) - 1
  ELSE -1

\* KeyValue as it would be with line.rfind("=") at line 109
KeyValueSplitLast(line) ==
  LET eq_index == RFind(line, "=")
      k == Strip(Slice(line, 0, eq_index))
      vs == Strip(Slice(line, eq_index + 1, Len(line)))
  IN  IF eq_index = -1
      THEN UNCHANGED <<dicts, lists, current_section, opened, Locals>>
      ELSE /\ key' = k
           /\ value_str' = vs
           /\ IF k = <<>>
              THEN UNCHANGED <<dicts, value>>
              ELSE /\ value' = ParseValue(vs)
                   /\ dicts' = [dicts EXCEPT ![current_section] =
                                  DictSet(@, k, ParseValue(vs))]
           /\ UNCHANGED <<lists, current_section, opened>>

\* KeyValue as it would be with result[key] = value at line 121
KeyValueAtRoot(line) ==
  LET eq_index == Find(line, "=")
      k == Strip(Slice(line, 0, eq_index))
      vs == Strip(Slice(line, eq_index + 1, Len(line)))
  IN  IF eq_index = -1
      THEN UNCHANGED <<dicts, lists, current_section, opened, Locals>>
      ELSE /\ key' = k
           /\ value_str' = vs
           /\ IF k = <<>>
              THEN UNCHANGED <<dicts, value>>
              ELSE /\ value' = ParseValue(vs)
                   /\ dicts' = [dicts EXCEPT ![result] =
                                  DictSet(@, k, ParseValue(vs))]
           /\ UNCHANGED <<lists, current_section, opened>>

\* KeyValue as it would be without the `if not key` test of line 117
KeyValueNoKeyTest(line) ==
  LET eq_index == Find(line, "=")
      k == Strip(Slice(line, 0, eq_index))
      vs == Strip(Slice(line, eq_index + 1, Len(line)))
  IN  IF eq_index = -1
      THEN UNCHANGED <<dicts, lists, current_section, opened, Locals>>
      ELSE /\ key' = k
           /\ value_str' = vs
           /\ value' = ParseValue(vs)
           /\ dicts' = [dicts EXCEPT ![current_section] =
                          DictSet(@, k, ParseValue(vs))]
           /\ UNCHANGED <<lists, current_section, opened>>

\* lines 109-121
KeyValue(line) ==
  LET eq_index == Find(line, "=")
      k == Strip(Slice(line, 0, eq_index))
      vs == Strip(Slice(line, eq_index + 1, Len(line)))
  IN  IF eq_index = -1
      THEN UNCHANGED <<dicts, lists, current_section, opened, Locals>>
      ELSE /\ key' = k
           /\ value_str' = vs
           /\ IF k = <<>>
              THEN UNCHANGED <<dicts, value>>
              ELSE /\ value' = ParseValue(vs)
                   /\ dicts' = [dicts EXCEPT ![current_section] =
                                  DictSet(@, k, ParseValue(vs))]
           /\ UNCHANGED <<lists, current_section, opened>>

\* one pass of the loop body, lines 69-121, on the next line of the text
ProcessLine(l) ==
  LET line == Strip(l)
  IN  /\ raw_line' = l
      /\ nlines' = nlines + 1
      /\ IF IsBlankOrComment(line)
         THEN UNCHANGED <<dicts, lists, current_section, opened, Locals>>
         ELSE IF IsArrayHeader(line)
         THEN IF ArrayHeaderName(line) = <<>>
              THEN ResetCursor
              ELSE ArrayHeader(ArrayHeaderName(line))
         ELSE IF IsTableHeader(line)
         THEN IF TableHeaderName(line) = <<>>
              THEN ResetCursor
              ELSE TableHeader(TableHeaderName(line))
         ELSE KeyValue(line)

-----------------------------------------------------------------------------
(* The accessors, TOML.__call__ and TOML.__getattr__.                      *)

\* the closure `getter` of lines 53-55, which captures the dict `table`
Getter(id) == [t |-> "getter", s |-> <<>>, n |-> id, e |-> 0]

\* what an operation hands back: a value, or the exception it raised
Returned(v) == [out |-> v, exc |-> ""]
Raised(x) == [out |-> None, exc |-> x]

\* bool(v) of a scalar
Truthy(v) ==
  CASE v.t = "str" -> v.s # <<>>
    [] v.t \in {"bool", "int"} -> v.n # 0
    [] v.t = "float" -> v.n # 0 \/ v.s # <<>>
    [] OTHER -> FALSE

\* CallResult as it would be with `value if value else default` at line 38
CallResultTruthy(k, default) ==
  LET v == DictGet(dicts[data.n], k)
  IN  IF IsDict(v) \/ IsList(v) THEN default
      ELSE IF Truthy(v) THEN v ELSE default

\* lines 34-38
CallResult(k, default) ==
  LET v == DictGet(dicts[data.n], k)
  IN  IF IsDict(v) \/ IsList(v) THEN default
      ELSE IF v # None THEN v ELSE default

\* GetAttrResult as it would be without the list case of lines 58-59
GetAttrResultNoList(attr) ==
  LET table == DictGet(dicts[data.n], attr)
  IN  IF IsDict(table) THEN Returned([t |-> "getter", s |-> <<>>, n |-> table.n, e |-> 0])
      ELSE Raised("AttributeError")

\* GetAttrResult as it would be if an array-of-tables were wrapped like a
\* table: a getter over its last element
GetAttrResultListAsGetter(attr) ==
  LET table == DictGet(dicts[data.n], attr)
  IN  IF IsDict(table) THEN Returned([t |-> "getter", s |-> <<>>, n |-> table.n, e |-> 0])
      ELSE IF IsList(table)
      THEN Returned([t |-> "getter", s |-> <<>>,
                     n |-> lists[table.n][Len(lists[table.n])], e |-> 0])
      ELSE Raised("AttributeError")

\* lines 48-61
GetAttrResult(attr) ==
  LET table == DictGet(dicts[data.n], attr)
  IN  IF IsDict(table) THEN Returned(Getter(table.n))
      ELSE IF IsList(table) THEN Returned(table)
      ELSE Raised("AttributeError")

\* obj(k, default): the getter of line 54 looks k up in its table; any other
\* object handed out by __getattr__ (a dict out of the list of line 59) is not
\* callable
CallObject(obj, k, default) ==
  IF obj.t = "getter"
  THEN Returned(DictGetDefault(dicts[obj.n], k, default))
  ELSE Raised("TypeError")

NoRet == [op |-> "", arg |-> <<>>, dflt |-> None, idx |-> 0, res |-> Returned(None)]

Parse == <<dicts, lists, current_section, nlines, raw_line, key, value_str,
           value, opened>>

Again == <<root, text, first>>

\* Call as it would be with self._data.setdefault(key, default) for the
\* get of line 34: a lookup of an absent key binds it
CallSetDefault(k, default) ==
  /\ pc = "done"
  /\ ret' = [op |-> "call", arg |-> k, dflt |-> default, idx |-> 0,
             res |-> Returned(CallResult(k, default))]
  /\ dicts' = [dicts EXCEPT ![data.n] =
                 IF k \in DOMAIN @ THEN @ ELSE DictSet(@, k, default)]
  /\ UNCHANGED <<pc, data, held, lists, current_section, nlines, raw_line,
                 key, value_str, value, opened, Again>>

\* config(k, default)
Call(k, default) ==
  /\ pc = "done"
  /\ ret' = [op |-> "call", arg |-> k, dflt |-> default, idx |-> 0,
             res |-> Returned(CallResult(k, default))]
  /\ UNCHANGED <<pc, data, held, Parse, Again>>

\* config.<attr>
GetAttr(attr) ==
  /\ pc = "done"
  /\ ret' = [op |-> "getattr", arg |-> attr, dflt |-> None, idx |-> 0,
             res |-> GetAttrResult(attr)]
  /\ held' = IF GetAttrResult(attr).exc = "" THEN GetAttrResult(attr).out ELSE held
  /\ UNCHANGED <<pc, data, Parse, Again>>

\* section(k, default), for the object a section access handed out
GetterCall(k, default) ==
  /\ pc = "done"
  /\ held.t = "getter"
  /\ ret' = [op |-> "getter", arg |-> k, dflt |-> default, idx |-> 0,
             res |-> CallObject(held, k, default)]
  /\ UNCHANGED <<pc, data, held, Parse, Again>>

\* sections[i](k, default), for the list a section access handed out
ElementCall(i, k, default) ==
  /\ pc = "done"
  /\ held.t = "list"
  /\ i \in 1..Len(lists[held.n])
  /\ ret' = [op |-> "elem_call", arg |-> k, dflt |-> default, idx |-> i,
             res |-> CallObject(DictRef(lists[held.n][i]), k, default)]
  /\ UNCHANGED <<pc, data, held, Parse, Again>>

\* sections[i].get(k, default)
ElementGet(i, k, default) ==
  /\ pc = "done"
  /\ held.t = "list"
  /\ i \in 1..Len(lists[held.n])
  /\ ret' = [op |-> "elem_get", arg |-> k, dflt |-> default, idx |-> i,
             res |-> Returned(DictGetDefault(dicts[lists[held.n][i]], k, default))]
  /\ UNCHANGED <<pc, data, held, Parse, Again>>

-----------------------------------------------------------------------------
(* The inputs.                                                             *)

\* the lines a document is made of
Lines ==
  { <<>>,
    <<" ", "#", "a", "=", "1">>,
    <<"[", "[", "a", "]", "]">>,
    <<"[", "[", " ", "b", "]", "]">>,
    <<"[", "a", "]">>,
    <<"[", "b", " ", "]">>,
    <<"[", "]">>,
    <<"[", " ", "]">>,
    <<"[", "[", "]", "]">>,
    <<"[", "[", " ", "]", "]">>,
    <<"a", "=", "1">>,
    <<" ", "a", " ", "=", " ", "0">>,
    <<"b", "=">>,
    <<"b", "=", "F", "a", "l", "s", "e">>,
    <<"b", "=", "\"", "a", "=", "b", "\"">>,
    <<"[", "a">>,
    <<" ", "=", "1">> }

\* the names and keys the accessors are asked for, and the caller's defaults
LookupKeys == { <<"a">>, <<"b">> }
Defaults == { None, IntV(7) }

-----------------------------------------------------------------------------
(* TOML.__init__ and the specification.                                    *)

Init ==
  /\ pc = "parsing"
  /\ root = 1
  /\ text = <<>>
  /\ first = None
  /\ dicts = <<EmptyDict>>
  /\ lists = <<>>
  /\ current_section = result
  /\ nlines = 0
  /\ raw_line = <<>>
  /\ key = <<>>
  /\ value_str = <<>>
  /\ value = None
  /\ data = None
  /\ held = None
  /\ ret = NoRet
  /\ opened = EmptyDict

\* the loop of line 69 takes the next line of the text
ReadLine(l) ==
  /\ pc = "parsing"
  /\ nlines < MaxLines
  /\ ProcessLine(l)
  /\ UNCHANGED <<pc, data, held, ret, Again>>

\* line 123 and line 23: the text is exhausted, self._data = result
Return ==
  /\ pc = "parsing"
  /\ pc' = "done"
  /\ data' = DictRef(result)
  /\ UNCHANGED <<held, ret, Parse, Again>>

Next ==
  \/ \E l \in Lines : ReadLine(l)
  \/ Return

Spec == Init /\ [][Next]_vars

-----------------------------------------------------------------------------
(* The accessors over a parsed document: shorter documents, made of the    *)
(* lines that bind scalars, tables and arrays, then any lookups.           *)

\* longest document of SpecAccess, in lines
MaxAccessLines == 3

AccessLines ==
  { <<"[", "[", "a", "]", "]">>,
    <<"[", "a", "]">>,
    <<"[", "b", " ", "]">>,
    <<"[", "]">>,
    <<"a", "=", "1">>,
    <<" ", "a", " ", "=", " ", "0">>,
    <<"b", "=">>,
    <<"b", "=", "F", "a", "l", "s", "e">> }

\* the longest array-of-tables such a document can build
MaxElems == MaxAccessLines

ReadAccessLine(l) ==
  /\ pc = "parsing"
  /\ nlines < MaxAccessLines
  /\ ProcessLine(l)
  /\ UNCHANGED <<pc, data, held, ret, Again>>

NextAccess ==
  \/ \E l \in AccessLines : ReadAccessLine(l)
  \/ Return
  \/ \E k \in LookupKeys, d \in Defaults : Call(k, d)
  \/ \E a \in LookupKeys : GetAttr(a)
  \/ \E k \in LookupKeys, d \in Defaults : GetterCall(k, d)
  \/ \E i \in 1..MaxElems, k \in LookupKeys, d \in Defaults : ElementCall(i, k, d)
  \/ \E i \in 1..MaxElems, k \in LookupKeys, d \in Defaults : ElementGet(i, k, d)

SpecAccess == Init /\ [][NextAccess]_vars

-----------------------------------------------------------------------------
(* Value coercion alone: one `v = <text>` line, with the text drawn from   *)
(* every short string over the characters that matter to _parse_value,     *)
(* every spelling of the boolean words, and a few longer literals.         *)

ValueAlphabet == {"1", "0", "_", "-", ".", "e", "\"", "'", " "}

SeqsUpTo(A, n) == UNION { [1..k -> A] : k \in 0..n }

UpperChar(c) ==
  CASE c = "t" -> "T" [] c = "r" -> "R" [] c = "u" -> "U" [] c = "e" -> "E"
    [] c = "f" -> "F" [] c = "a" -> "A" [] c = "l" -> "L" [] c = "s" -> "S"

\* every upper/lower-case spelling of a lower-case word
RECURSIVE Spellings(_)
Spellings(w) ==
  IF w = <<>> THEN { <<>> }
  ELSE { <<c>> \o r : c \in {w[1], UpperChar(w[1])}, r \in Spellings(Tail(w)) }

TrueWord == <<"t", "r", "u", "e">>
FalseWord == <<"f", "a", "l", "s", "e">>
BoolWords == Spellings(TrueWord) \cup Spellings(FalseWord)

Quotes == {"\"", "'"}
Quoted(S) == { <<q>> \o w \o <<q>> : q \in Quotes, w \in S }

Literals ==
  { <<"1", "_", "0", "0", "0">>, <<"+", "1", "_", "0">>, <<"-", "1", "_", "0", "0", "0">>,
    <<"_", "1", "_", "_", "2", "_">>, <<"3", "0", ".", "5">>, <<"3", "3", "0", "6">>,
    <<"1", "e", "+", "1">>, <<"1", "_", "0", "E", "2">>, <<"1", "_", "0", ".", "5">>,
    <<"i", "n", "f">>, <<"-", "I", "n", "f">>, <<"N", "a", "N">>,
    <<"t", "r", "u">>, <<"t", "r", "u", "e", "_">>, <<"_", "t", "r", "u", "e">>,
    <<"t", "r", "u", "e", "e">>, <<"f", "a", "l", "s", "e", "1">>,
    <<"1", " ", "_">>, <<"0", "x", "1">>, <<"1", "+">>, <<"+">>, <<"\t", "7", "\t">>,
    <<"\"", "a", "\\", "\"", "b", "\"">>, <<"\"", "a", "'">>,
    <<"\"", "\"", "a", "\"", "\"">> }

ValueInputs ==
  SeqsUpTo(ValueAlphabet, MaxValLen) \cup BoolWords \cup Quoted(BoolWords) \cup Literals

ReadValueLine(rhs) ==
  /\ pc = "parsing"
  /\ nlines = 0
  /\ ProcessLine(<<"v", " ", "=">> \o rhs)
  /\ UNCHANGED <<pc, data, held, ret, Again>>

NextValue == \E rhs \in ValueInputs : ReadValueLine(rhs)

SpecValue == Init /\ [][NextValue]_vars

-----------------------------------------------------------------------------
(* Two TOML objects constructed from the same text, one after the other,   *)
(* in one heap.                                                            *)

\* longest document of SpecTwo, in lines
MaxTwoLines == 3

TwoLines ==
  { <<"[", "[", "a", "]", "]">>,
    <<"[", "[", " ", "b", "]", "]">>,
    <<"[", "a", "]">>,
    <<"[", "b", " ", "]">>,
    <<"[", "]">>,
    <<"a", "=", "1">>,
    <<" ", "a", " ", "=", " ", "0">>,
    <<"b", "=", "F", "a", "l", "s", "e">> }

\* the first parse takes the next line of the text
ReadFirst(l) ==
  /\ pc = "parsing"
  /\ first = None
  /\ nlines < MaxTwoLines
  /\ ProcessLine(l)
  /\ text' = Append(text, l)
  /\ UNCHANGED <<pc, data, held, ret, root, first>>

\* the second parse takes the next line of the same text
ReadSecond ==
  /\ pc = "parsing"
  /\ first # None
  /\ nlines < Len(text)
  /\ ProcessLine(text[nlines + 1])
  /\ UNCHANGED <<pc, data, held, ret, Again>>

\* line 123 and line 23, at the end of the text
ReturnAtEnd == nlines = Len(text) /\ Return

\* ConstructAgain as it would be if `result` were one dict shared by every
\* parse (a class attribute, a mutable default) instead of the {} of line 66
ConstructAgainShared ==
  /\ pc = "done"
  /\ first = None
  /\ first' = data
  /\ pc' = "parsing"
  /\ data' = None
  /\ current_section' = root
  /\ nlines' = 0
  /\ raw_line' = <<>>
  /\ key' = <<>>
  /\ value_str' = <<>>
  /\ value' = None
  /\ opened' = EmptyDict
  /\ UNCHANGED <<dicts, root, lists, text, held, ret>>

\* TOML(toml_str) once more: lines 22-23 enter _parse_toml, lines 66-67 make
\* a new dict `result` and put the cursor on it
ConstructAgain ==
  /\ pc = "done"
  /\ first = None
  /\ first' = data
  /\ pc' = "parsing"
  /\ data' = None
  /\ dicts' = Append(dicts, EmptyDict)
  /\ root' = Len(dicts) + 1
  /\ current_section' = Len(dicts) + 1
  /\ nlines' = 0
  /\ raw_line' = <<>>
  /\ key' = <<>>
  /\ value_str' = <<>>
  /\ value' = None
  /\ opened' = EmptyDict
  /\ UNCHANGED <<lists, text, held, ret>>

NextTwo ==
  \/ \E l \in TwoLines : ReadFirst(l)
  \/ ReadSecond
  \/ ReturnAtEnd
  \/ ConstructAgain

SpecTwo == Init /\ [][NextTwo]_vars

-----------------------------------------------------------------------------
(* The properties.                                                         *)

\* the Document root, and what a name is bound to there
Root == dicts[result]
RootEntry(n) == DictGet(dicts[result], n)

\* the step just taken processed one more line of the text
LineStep == nlines' = nlines + 1

\* C1. Once a root name is bound to a TableArray it stays bound to a
\* TableArray: no later line replaces it by a Table or by a Scalar.
C1_TableArrayStays ==
  [][\A n \in DOMAIN dicts[result] :
       IsList(dicts[result][n]) =>
         n \in DOMAIN dicts'[result] /\ IsList(dicts'[result][n])]_vars

\* C2. Right after the N-th `[[name]]` header, root[name] is a TableArray of
\* length N whose i-th element is the table the i-th occurrence opened.
C2_LengthIsOccurrenceCount ==
  LET line == Strip(raw_line)
      name == ArrayHeaderName(line)
  IN  (nlines > 0 /\ IsArrayHeader(line) /\ name # <<>>) =>
        /\ IsList(RootEntry(name))
        /\ lists[RootEntry(name).n] = opened[name]

\* C3. A `[name]` header met when root[name] is already a Table reuses that
\* Table: no mapping of the Document changes (no key is cleared, no entry is
\* created or rebound) and the cursor moves to that Table.  No line removes a
\* key from a table, and a key of a table changes only to the value a later
\* line assigns to it through the cursor: the table accumulates what is
\* assigned under every occurrence of its header, the later value winning.
C3_ReopenReusesTable ==
  [][LET line == Strip(raw_line')
         name == TableHeaderName(line)
     IN  /\ (LineStep /\ IsTableHeader(line) /\ name # <<>> /\ IsDict(RootEntry(name))) =>
               /\ dicts' = dicts
               /\ lists' = lists
               /\ current_section' = RootEntry(name).n
         /\ \A d \in 2..Len(dicts) :
               /\ DOMAIN dicts[d] \subseteq DOMAIN dicts'[d]
               /\ \A k \in DOMAIN dicts[d] :
                    dicts'[d][k] # dicts[d][k] =>
                      (d = current_section /\ k = key' /\ dicts'[d][k] = value')]_vars

\* C3 happens: a `[name]` header has just re-opened a Table that already
\* holds a key, and the cursor is on it.
C3_Witness ==
  LET line == Strip(raw_line)
      name == TableHeaderName(line)
  IN  /\ nlines >= 3
      /\ IsTableHeader(line) /\ name # <<>>
      /\ IsDict(RootEntry(name))
      /\ current_section = RootEntry(name).n
      /\ DOMAIN dicts[current_section] # {}

\* the lines the parser is said to skip: blank, whole-line comment, a
\* non-header line without `=`, a line whose key is empty after trimming
IsHeader(line) == IsArrayHeader(line) \/ IsTableHeader(line)
FirstEquals(line) == CHOOSE i \in 1..Len(line) : line[i] = "=" /\ \A j \in 1..(i - 1) : line[j] # "="
HasEquals(line) == \E i \in 1..Len(line) : line[i] = "="
IsSkipped(l) ==
  LET line == Strip(l)
  IN  \/ line = <<>>
      \/ line[1] = "#"
      \/ ~IsHeader(line) /\ ~HasEquals(line)
      \/ ~IsHeader(line) /\ HasEquals(line)
           /\ Strip(SubSeq(line, 1, FirstEquals(line) - 1)) = <<>>

\* C4. Parsing does not fail: a skipped line leaves the Document and the
\* cursor as they were, and the parse ends with the Document it built bound
\* to the reader.
C4_SkippedLinesChangeNothing ==
  [][/\ (LineStep /\ IsSkipped(raw_line')) =>
          (dicts' = dicts /\ lists' = lists /\ current_section' = current_section)
     /\ (pc = "parsing" /\ pc' = "done") =>
          (data' = DictRef(result) /\ dicts' = dicts /\ lists' = lists)]_vars

\* C4 happens: a line with an empty key has been processed while the cursor
\* was in a section of a document that already holds entries.
C4_Witness ==
  /\ nlines >= 3
  /\ HasEquals(Strip(raw_line)) /\ IsSkipped(raw_line)
  /\ current_section # result
  /\ DOMAIN dicts[current_section] # {}

\* C5. A global lookup returns the stored value exactly when the key is bound
\* at the root to a Scalar (the falsy ones included) and the caller's default
\* otherwise: for an absent key, a Table, a TableArray, a key assigned only
\* inside a section.  It does not raise.
C5_GlobalLookup ==
  ret.op = "call" =>
    ret.res = Returned(IF ret.arg \in DOMAIN Root /\ IsScalar(Root[ret.arg])
                       THEN Root[ret.arg]
                       ELSE ret.dflt)

\* C5 happens: a lookup with default 7 of a key bound at the root to the
\* falsy scalar 0 has returned 0.
C5_Witness ==
  /\ ret.op = "call"
  /\ ret.arg \in DOMAIN Root
  /\ Root[ret.arg] = IntV(0)
  /\ ret.dflt = IntV(7)
  /\ ret.res = Returned(IntV(0))

\* C6. Section access fails, with the one failure it has, exactly when the
\* name is absent from the root or bound there to a Scalar; a lookup through
\* a returned getter does not fail and yields the table's value or the
\* caller's default.
C6_NoSuchSection ==
  /\ ret.op = "getattr" =>
       /\ ret.res.exc \in {"", "AttributeError"}
       /\ ret.res.exc = "AttributeError" <=>
            (ret.arg \notin DOMAIN Root \/ IsScalar(Root[ret.arg]))
  /\ ret.op = "getter" =>
       ret.res = Returned(IF ret.arg \in DOMAIN dicts[held.n]
                          THEN dicts[held.n][ret.arg]
                          ELSE ret.dflt)

\* C6 happens: section access to a name bound at the root to a Scalar has
\* failed.
C6_Witness ==
  /\ ret.op = "getattr"
  /\ ret.arg \in DOMAIN Root
  /\ IsScalar(Root[ret.arg])
  /\ ret.res.exc = "AttributeError"

Coerced == nlines = 1 /\ key = <<"v">>

\* C8. A value string is a quoted string exactly when it has at least 2
\* characters and its first and last characters are the same quote character;
\* it then yields its interior.  Anything else, a lone quote character
\* included, goes through the unquoted coercions.
C8_QuotedNeedsTwoChars ==
  Coerced =>
    value = IF value_str = <<>> THEN Str(<<>>)
            ELSE IF /\ Len(value_str) >= 2
                    /\ value_str[1] \in Quotes
                    /\ value_str[Len(value_str)] = value_str[1]
            THEN Str(SubSeq(value_str, 2, Len(value_str) - 1))
            ELSE CoerceUnquoted(value_str)

\* w, compared case-insensitively, is the word
SpellsWord(w, word) ==
  /\ Len(w) = Len(word)
  /\ \A i \in 1..Len(word) : w[i] \in {word[i], UpperChar(word[i])}

\* C9. An unquoted value string is coerced to a boolean exactly when it is a
\* spelling, in any mix of cases, of true or false, and then to that boolean;
\* the same word in quotes is the string.
C9_Booleans ==
  Coerced =>
    LET inner == SubSeq(value_str, 2, Len(value_str) - 1)
    IN  /\ SpellsWord(value_str, TrueWord) => value = Bool(TRUE)
        /\ SpellsWord(value_str, FalseWord) => value = Bool(FALSE)
        /\ value.t = "bool" =>
             (SpellsWord(value_str, TrueWord) \/ SpellsWord(value_str, FalseWord))
        /\ (/\ Len(value_str) >= 2
            /\ value_str[1] \in Quotes
            /\ value_str[Len(value_str)] = value_str[1]
            /\ SpellsWord(inner, TrueWord) \/ SpellsWord(inner, FalseWord)) =>
             value = Str(inner)

\* C9 happens: a mixed-case spelling of true has been coerced.
C9_Witness ==
  /\ Coerced
  /\ value_str = <<"T", "r", "U", "e">>
  /\ value = Bool(TRUE)

\* the digits of a string, and the strings made of an optional sign, digits
\* and underscores, with a digit among them
DigitsOf(w) == SelectSeq(w, LAMBDA c : c \in Digits)
IsDigitString(w) ==
  LET body == IF w # <<>> /\ w[1] \in {"+", "-"} THEN Tail(w) ELSE w
  IN  /\ \A i \in 1..Len(body) : body[i] \in Digits \cup {"_"}
      /\ DigitsOf(body) # <<>>
HasFloatSyntax(w) == \E i \in 1..Len(w) : w[i] \in {".", "e", "E"}

\* C10. A value string of digits, underscores and an optional leading sign is
\* coerced to the integer its digits denote; a string with `.` or an exponent
\* marker is never coerced to an integer; an unquoted string that is no
\* boolean and no number once its underscores are removed comes back as
\* itself, underscores intact.
C10_Integers ==
  Coerced =>
    /\ IsDigitString(value_str) =>
         value = IntV((IF value_str[1] = "-" THEN -1 ELSE 1) * NumVal(DigitsOf(value_str)))
    /\ HasFloatSyntax(value_str) => value.t # "int"
    /\ (/\ value_str # <<>>
        /\ ~QuoteTest(value_str)
        /\ ~SpellsWord(value_str, TrueWord) /\ ~SpellsWord(value_str, FalseWord)
        /\ PyInt(RemoveUnderscores(value_str)).raised
        /\ PyFloat(RemoveUnderscores(value_str)).raised) => value = Str(value_str)

\* C10 happens: 1_000 has been coerced to the integer 1000.
C10_Witness ==
  /\ Coerced
  /\ value_str = <<"1", "_", "0", "0", "0">>
  /\ value = IntV(1000)

\* C11. The accessors are read-only: once parsing is over, no global lookup,
\* section access or getter invocation, failing ones included, changes a
\* dict or a list of the Document.
C11_AccessorsReadOnly ==
  [][pc = "done" => (dicts' = dicts /\ lists' = lists /\ data' = data)]_vars

\* C11 happens: a getter has been asked for a key its table does not hold,
\* over a document that holds entries.
C11_Witness ==
  /\ ret.op = "getter"
  /\ ret.arg \notin DOMAIN dicts[held.n]
  /\ ret.res = Returned(ret.dflt)
  /\ Cardinality(DOMAIN Root) >= 2

\* the tables that are elements of the array a root entry refers to
Elements(entry) == { lists[entry.n][i] : i \in 1..Len(lists[entry.n]) }

\* C13. After every line the cursor refers to the Document root, to a Table
\* bound at a root key, or to the last element of a TableArray bound at a
\* root key: never to a mapping detached from the Document.
C13_CursorInDocument ==
  \/ current_section = result
  \/ \E n \in DOMAIN Root :
       \/ IsDict(Root[n]) /\ current_section = Root[n].n
       \/ IsList(Root[n]) /\ current_section = lists[Root[n].n][Len(lists[Root[n].n])]

\* C13 happens: the cursor is on the second element of an array, in a
\* document where an earlier binding has been overwritten (a table or an
\* array is detached).
C13_Witness ==
  /\ \E n \in DOMAIN Root :
       /\ IsList(Root[n])
       /\ Len(lists[Root[n].n]) = 2
       /\ current_section = lists[Root[n].n][2]
  /\ Len(dicts) >= 5

\* C14. Every Table bound at the root and every element of every TableArray
\* maps its keys to Scalars only: no Table and no TableArray is ever stored
\* inside a Table or an array element.
C14_OneLevel ==
  \A n \in DOMAIN Root :
    /\ IsDict(Root[n]) =>
         \A k \in DOMAIN dicts[Root[n].n] : IsScalar(dicts[Root[n].n][k])
    /\ IsList(Root[n]) =>
         \A d \in Elements(Root[n]) : \A k \in DOMAIN dicts[d] : IsScalar(dicts[d][k])

\* C14 happens: a `[[name]]` header has been met after a key was stored in a
\* Table; the root binds that Table and the TableArray the cursor is in.
C14_Witness ==
  /\ IsHeader(Strip(raw_line))
  /\ \E n \in DOMAIN Root : IsDict(Root[n]) /\ DOMAIN dicts[Root[n].n] # {}
  /\ \E n \in DOMAIN Root : IsList(Root[n]) /\ current_section \in Elements(Root[n])

\* a key/value line that assigns: no blank, comment or header line, with an
\* `=` and a key before it; its key and its value string
Assigns(l) == l # <<>> /\ Strip(l) # <<>> /\ ~IsHeader(Strip(l)) /\ ~IsSkipped(l)
KeyOf(l) == Strip(SubSeq(Strip(l), 1, FirstEquals(Strip(l)) - 1))
ValueStringOf(l) == Strip(SubSeq(Strip(l), FirstEquals(Strip(l)) + 1, Len(Strip(l))))

\* C15. A key/value line with a non-empty key writes key -> coerced value
\* into the mapping the cursor refers to, over any prior value of that key;
\* every other mapping, every list and the cursor stay as they were.
C15_AssignsAtCursor ==
  [][(LineStep /\ Assigns(raw_line')) =>
       /\ current_section' = current_section
       /\ lists' = lists
       /\ Len(dicts') = Len(dicts)
       /\ \A d \in 1..Len(dicts) : d # current_section => dicts'[d] = dicts[d]
       /\ DOMAIN dicts'[current_section] =
            DOMAIN dicts[current_section] \cup {KeyOf(raw_line')}
       /\ \A k \in DOMAIN dicts'[current_section] :
            dicts'[current_section][k] =
              IF k = KeyOf(raw_line')
              THEN ParseValue(ValueStringOf(raw_line'))
              ELSE dicts[current_section][k]]_vars

\* C15 happens: a line has assigned a key in a section while the root holds
\* the same key with another value.
C15_Witness ==
  /\ nlines >= 3
  /\ Assigns(raw_line)
  /\ current_section # result
  /\ dicts[current_section][KeyOf(raw_line)] = IntV(0)
  /\ KeyOf(raw_line) \in DOMAIN Root
  /\ Root[KeyOf(raw_line)] = IntV(1)

\* a header, of either kind, whose name is empty after trimming
IsEmptyHeader(line) ==
  \/ IsArrayHeader(line) /\ Strip(SubSeq(line, 3, Len(line) - 2)) = <<>>
  \/ IsTableHeader(line) /\ Strip(SubSeq(line, 2, Len(line) - 1)) = <<>>

\* C16. A header with an empty name only moves the cursor to the root: no
\* dict and no list changes.  A key/value line that follows it is stored at
\* the root.
C16_EmptyHeaderResets ==
  [][/\ (LineStep /\ IsEmptyHeader(Strip(raw_line'))) =>
          (dicts' = dicts /\ lists' = lists /\ current_section' = result)
     /\ (LineStep /\ nlines > 0 /\ IsEmptyHeader(Strip(raw_line)) /\ Assigns(raw_line')) =>
          (/\ KeyOf(raw_line') \in DOMAIN dicts'[result]
           /\ dicts'[result][KeyOf(raw_line')] = ParseValue(ValueStringOf(raw_line')))]_vars

\* C16 happens: the first line opened a section, the second was a header
\* without a name, and the third has assigned at the root.
C16_Witness ==
  /\ nlines = 3
  /\ Len(dicts) = 2
  /\ Assigns(raw_line)
  /\ DOMAIN dicts[2] = {}
  /\ current_section = result
  /\ KeyOf(raw_line) \in DOMAIN Root

\* C17. A key/value line is split at its first `=` only: the key is the
\* trimmed text before it, the value string the whole trimmed text after it,
\* further `=` included.
C17_SplitAtFirstEquals ==
  (nlines > 0 /\ Assigns(raw_line)) =>
    /\ key = KeyOf(raw_line)
    /\ value_str = ValueStringOf(raw_line)
    /\ key \in DOMAIN dicts[current_section]
    /\ dicts[current_section][key] = ParseValue(value_str)

\* C17 happens: the line b="a=b" has stored the string a=b under b.
C17_Witness ==
  /\ raw_line = <<"b", "=", "\"", "a", "=", "b", "\"">>
  /\ key = <<"b">>
  /\ value_str = <<"\"", "a", "=", "b", "\"">>
  /\ dicts[current_section][<<"b">>] = Str(<<"a", "=", "b">>)

\* C18. `[[name]]` met when root[name] is absent, a Scalar or a Table binds a
\* fresh TableArray holding exactly one empty Table; a `[name]` header met
\* when root[name] is a Scalar or a TableArray leaves that entry in place.
C18_OnlyArrayHeaderOverwrites ==
  [][LET line == Strip(raw_line')
     IN  /\ (LineStep /\ IsArrayHeader(line) /\ ~IsEmptyHeader(line)
               /\ ~IsList(RootEntry(ArrayHeaderName(line)))) =>
               LET bound == DictGet(dicts'[result], ArrayHeaderName(line))
               IN  /\ IsList(bound)
                   /\ bound.n > Len(lists)
                   /\ Len(lists'[bound.n]) = 1
                   /\ lists'[bound.n][1] > Len(dicts)
                   /\ dicts'[lists'[bound.n][1]] = EmptyDict
         /\ (LineStep /\ IsTableHeader(line) /\ ~IsEmptyHeader(line)
               /\ TableHeaderName(line) \in DOMAIN dicts[result]
               /\ ~IsDict(dicts[result][TableHeaderName(line)])) =>
               dicts'[result][TableHeaderName(line)] = dicts[result][TableHeaderName(line)]]_vars

\* the tables that are, or once were, elements of an array
AllElements == UNION { { lists[a][i] : i \in 1..Len(lists[a]) } : a \in 1..Len(lists) }

\* C19. An array element is frozen once the cursor has left it: no later line
\* adds, changes or removes a key of it, and the cursor does not come back.
C19_LeftElementsFrozen ==
  [][\A d \in AllElements :
       d # current_section => (dicts'[d] = dicts[d] /\ current_section' # d)]_vars

\* C19 happens: the second `[[name]]` section has assigned 0 to the key the
\* first one holds with 1.
C19_Witness ==
  \E n \in DOMAIN Root :
    /\ IsList(Root[n])
    /\ Len(lists[Root[n].n]) = 2
    /\ dicts[lists[Root[n].n][1]] = (<<"a">> :> IntV(1))
    /\ dicts[lists[Root[n].n][2]] = (<<"a">> :> IntV(0))

\* C20. Every TableArray bound at the root has at least one element, and no
\* mapping holds an empty key or a key with leading or trailing whitespace.
C20_WellFormed ==
  /\ \A n \in DOMAIN Root : IsList(Root[n]) => Len(lists[Root[n].n]) >= 1
  /\ \A d \in 1..Len(dicts) : \A k \in DOMAIN dicts[d] :
       /\ k # <<>>
       /\ k[1] \notin Whitespace
       /\ k[Len(k)] \notin Whitespace

\* C20 happens: `[[ b]]` has bound an array at b and ` a = 0` a key in its
\* element.
C20_Witness ==
  /\ <<"b">> \in DOMAIN Root
  /\ IsList(Root[<<"b">>])
  /\ raw_line = <<" ", "a", " ", "=", " ", "0">>
  /\ current_section \in Elements(Root[<<"b">>])
  /\ DOMAIN dicts[current_section] = { <<"a">> }

\* a Document as a value: keys, kinds, table contents, array elements in
\* order, with no object identity left in it
EntryShape(v) ==
  [kind |-> v.t,
   scalar |-> IF IsScalar(v) THEN v ELSE None,
   table |-> IF IsDict(v) THEN dicts[v.n] ELSE EmptyDict,
   elems |-> IF IsList(v) THEN [i \in 1..Len(lists[v.n]) |-> dicts[lists[v.n][i]]]
             ELSE <<>>]
Shape(d) == [k \in DOMAIN dicts[d] |-> EntryShape(dicts[d][k])]

\* the dicts and the lists a Document is made of
DictsOf(d) ==
  {d} \cup { dicts[d][k].n : k \in { x \in DOMAIN dicts[d] : IsDict(dicts[d][x]) } }
      \cup UNION { Elements(dicts[d][k]) : k \in { x \in DOMAIN dicts[d] : IsList(dicts[d][x]) } }
ListsOf(d) == { dicts[d][k].n : k \in { x \in DOMAIN dicts[d] : IsList(dicts[d][x]) } }

\* C12. Two parses of the same text give structurally equal Documents that
\* share no dict and no list.
C12_EqualAndIndependent ==
  (pc = "done" /\ first # None) =>
    /\ Shape(first.n) = Shape(data.n)
    /\ DictsOf(first.n) \cap DictsOf(data.n) = {}
    /\ ListsOf(first.n) \cap ListsOf(data.n) = {}

\* C12 happens: a text of three lines that builds an array with a key in its
\* element has been parsed twice.
C12_Witness ==
  /\ pc = "done"
  /\ first # None
  /\ Len(text) = 3
  /\ \E n \in DOMAIN Root :
       /\ IsList(Root[n])
       /\ \E d \in Elements(Root[n]) : DOMAIN dicts[d] # {}

====
